---------------------------- MODULE Spec2Model ----------------------------
(***************************************************************************)
(* qCVS: the quote extractor (main.go) and the random-quote sampler        *)
(* (rand/random_quote.go).                                                 *)
(*                                                                         *)
(* A Go string is modelled as a sequence of one-character strings.  Go     *)
(* indexes from 0 and TLA+ from 1: position p here is byte p-1 there, so   *)
(* the code's "i+1 < len(text)" reads "i+1 <= Len(text)" below.            *)
(***************************************************************************)
EXTENDS Integers, Sequences, FiniteSets, TLC

VARIABLES
    \* splitSentences, one loop iteration per step
    text,        \* the argument
    pos,         \* number of characters scanned so far (the loop's i, plus one)
    sb,          \* strings.Builder sb
    parenLevel,  \* parenLevel
    sentences,   \* sentences
    spans,       \* history: <<first, last>> position in text of each sentence
    cuts,        \* history: positions at which the loop appended a sentence
    pcS,         \* "scan" | "done"
    \* verifyAndExtractContext, one call
    vSentences,  \* argument sentences
    vQuote,      \* argument quote
    vAuthor,     \* argument author
    vResult,     \* the returned (Quote, bool)
    pcV,         \* "call" | "done"
    \* a quote written by initCSV and appendToCSV and read by readQuotesFromCSV
    cQuote,      \* the quote of the run
    csvFile,     \* what the file holds
    cWritten,    \* history: the quotes handed to appendToCSV
    cRead,       \* what readQuotesFromCSV returned
    pcC,         \* "create" | "append" | "read" | "done"
    \* getRandomQuote
    sWalkErr,    \* whether filepath.WalkDir fails
    sFiles,      \* csvFiles, as found
    sNext,       \* number of files the loop has read
    sAllQuotes,  \* allQuotes
    sLog,        \* the file indexes logged as failed
    sPerFile,    \* history: what readQuotesFromCSV returned for each file
    sQuote,      \* the quote returned
    pcR,         \* "find" | "read" | "done" | "error" | "panic"
    \* processFile
    pInput,      \* the lines of the input file, each a key of LineText
    pRead,       \* number of lines scanner.Scan has returned
    block,       \* block: the lines written to it, a "\n" after each
    allSentences, \* allSentences
    allQuotes,   \* allQuotes
    pCsv,        \* what the output file holds
    pLog,        \* the log lines, by kind
    pCalls,      \* history: one record per call of processBlock
    pcP          \* "start" | "scan" | "done" | "failed"

splitVars   == <<text, pos, sb, parenLevel, sentences, spans, cuts, pcS>>
verifyVars  == <<vSentences, vQuote, vAuthor, vResult, pcV>>
csvVars     == <<cQuote, csvFile, cWritten, cRead, pcC>>
samplerVars == <<sWalkErr, sFiles, sNext, sAllQuotes, sLog, sPerFile, sQuote, pcR>>

processVars == <<pInput, pRead, block, allSentences, allQuotes, pCsv, pLog,
                 pCalls, pcP>>

vars == <<splitVars, verifyVars, csvVars, samplerVars, processVars>>

OtherThanSplit   == <<verifyVars, csvVars, samplerVars, processVars>>
OtherThanVerify  == <<splitVars, csvVars, samplerVars, processVars>>
OtherThanCsv     == <<splitVars, verifyVars, samplerVars, processVars>>
OtherThanSampler == <<splitVars, verifyVars, csvVars, processVars>>
OtherThanProcess == <<splitVars, verifyVars, csvVars, samplerVars>>

(***************************************************************************)
(* Bounds of the model.                                                    *)
(***************************************************************************)
MaxLen == 4
MaxSents == 5
MaxField == 2
MaxRows == 3
MaxFiles == 2
MaxLines == 3

(***************************************************************************)
(* Strings.                                                                *)
(***************************************************************************)
\* unicode.IsSpace, on the characters the model uses
IsSpace(c) == c \in {" ", "\t", "\n", "\r"}

\* strings.TrimSpace without trimming the front: the mutant of TrimSpace
TrimSpaceRightOnly(s) ==
    IF \A k \in 1..Len(s) : IsSpace(s[k])
    THEN <<>>
    ELSE SubSeq(s, 1,
                CHOOSE k \in 1..Len(s) : /\ ~IsSpace(s[k])
                                         /\ \A j \in (k+1)..Len(s) : IsSpace(s[j]))

\* strings.TrimSpace
TrimSpace(s) ==
    IF \A k \in 1..Len(s) : IsSpace(s[k])
    THEN <<>>
    ELSE SubSeq(s,
                CHOOSE k \in 1..Len(s) : /\ ~IsSpace(s[k])
                                         /\ \A j \in 1..(k-1) : IsSpace(s[j]),
                CHOOSE k \in 1..Len(s) : /\ ~IsSpace(s[k])
                                         /\ \A j \in (k+1)..Len(s) : IsSpace(s[j]))

(***************************************************************************)
(* splitSentences (main.go).                                               *)
(***************************************************************************)
Openers   == {"(", "[", "{"}
Closers   == {")", "]", "}"}
Terminals == {".", "!", "?"}

\* the state of the scan before the first character
ScanInit == [sb |-> <<>>, parenLevel |-> 0, sentences |-> <<>>]

\* the loop body without the abbreviation test: the mutant of scanRune for C2
scanRuneNoAbbrev(st, t, i) ==
    LET r   == t[i]
        sb1 == Append(st.sb, r)
        lvl == IF r \in Openers THEN st.parenLevel + 1
               ELSE IF r \in Closers THEN st.parenLevel - 1
               ELSE st.parenLevel
    IN  IF r \in Terminals /\ lvl = 0
        THEN LET s == TrimSpace(sb1)
             IN  [sb |-> <<>>, parenLevel |-> lvl,
                  sentences |-> IF s # <<>> THEN Append(st.sentences, s)
                                ELSE st.sentences]
        ELSE [sb |-> sb1, parenLevel |-> lvl, sentences |-> st.sentences]

\* the loop body without the parenLevel test: the mutant of scanRune for C3
scanRuneNoLevel(st, t, i) ==
    LET r   == t[i]
        sb1 == Append(st.sb, r)
        lvl == IF r \in Openers THEN st.parenLevel + 1
               ELSE IF r \in Closers THEN st.parenLevel - 1
               ELSE st.parenLevel
    IN  IF r \in Terminals
        THEN IF r = "." /\ i + 1 <= Len(t) /\ t[i+1] # " " /\ t[i+1] # "\n"
             THEN [sb |-> sb1, parenLevel |-> lvl, sentences |-> st.sentences]
             ELSE LET s == TrimSpace(sb1)
                  IN  [sb |-> <<>>, parenLevel |-> lvl,
                       sentences |-> IF s # <<>> THEN Append(st.sentences, s)
                                     ELSE st.sentences]
        ELSE [sb |-> sb1, parenLevel |-> lvl, sentences |-> st.sentences]

\* one iteration of "for i, r := range text" on the character at position i
scanRune(st, t, i) ==
    LET r   == t[i]
        sb1 == Append(st.sb, r)
        lvl == IF r \in Openers THEN st.parenLevel + 1
               ELSE IF r \in Closers THEN st.parenLevel - 1
               ELSE st.parenLevel
    IN  IF r \in Terminals /\ lvl = 0
        THEN IF r = "." /\ i + 1 <= Len(t) /\ t[i+1] # " " /\ t[i+1] # "\n"
             THEN \* continue: the period stays in the buffer
                  [sb |-> sb1, parenLevel |-> lvl, sentences |-> st.sentences]
             ELSE LET s == TrimSpace(sb1)
                  IN  [sb |-> <<>>, parenLevel |-> lvl,
                       sentences |-> IF s # <<>> THEN Append(st.sentences, s)
                                     ELSE st.sentences]
        ELSE [sb |-> sb1, parenLevel |-> lvl, sentences |-> st.sentences]

\* the code after the loop: the rest of the buffer is the last sentence
scanFlush(st) ==
    IF Len(st.sb) > 0
    THEN LET s == TrimSpace(st.sb)
         IN  IF s # <<>> THEN Append(st.sentences, s) ELSE st.sentences
    ELSE st.sentences

\* the loop over positions lo..hi, left to right.  The range is halved and
\* the state after the left half is computed (the test on left.parenLevel
\* makes TLC evaluate it) before the right half starts from it, so that a
\* line of thousands of characters does not nest thousands of evaluations.
RECURSIVE scanRange(_, _, _, _)
scanRange(st, t, lo, hi) ==
    IF lo > hi THEN st
    ELSE IF lo = hi THEN scanRune(st, t, lo)
    ELSE LET mid  == (lo + hi) \div 2
             left == scanRange(st, t, lo, mid)
         IN  IF left.parenLevel \in Int
             THEN scanRange(left, t, mid + 1, hi)
             ELSE left

splitSentences(t) == scanFlush(scanRange(ScanInit, t, 1, Len(t)))

(***************************************************************************)
(* The scan of splitSentences, one character per step.                     *)
(***************************************************************************)
Alphabet == {"a", ".", "!", " ", "\n", "\t", "(", ")"}

\* "On skazal (eto. pravda.) vse.": the spec's example, transliterated
ExampleText ==
    <<"O","n"," ","s","k","a","z","a","l"," ","(","e","t","o","."," ",
      "p","r","a","v","d","a",".",")"," ","v","s","e",".">>

ExampleSentences == splitSentences(ExampleText)

Texts == UNION {[1..n -> Alphabet] : n \in 0..MaxLen} \cup {ExampleText}

\* the positions of the trimmed buffer b whose last character is at position p
SpanOf(b, p) ==
    LET first == p - Len(b) + 1
        lead  == CHOOSE k \in 1..Len(b) : /\ ~IsSpace(b[k])
                                          /\ \A j \in 1..(k-1) : IsSpace(b[j])
        trail == CHOOSE k \in 1..Len(b) : /\ ~IsSpace(b[k])
                                          /\ \A j \in (k+1)..Len(b) : IsSpace(b[j])
    IN  <<first + lead - 1, first + trail - 1>>

SplitIdle ==
    /\ text = <<>>
    /\ pos = 0
    /\ sb = <<>>
    /\ parenLevel = 0
    /\ sentences = <<>>
    /\ spans = <<>>
    /\ cuts = {}
    /\ pcS = "idle"

SplitInit ==
    /\ text \in Texts
    /\ pos = 0
    /\ sb = ScanInit.sb
    /\ parenLevel = ScanInit.parenLevel
    /\ sentences = ScanInit.sentences
    /\ spans = <<>>
    /\ cuts = {}
    /\ pcS = "scan"

SplitStep ==
    /\ pcS = "scan"
    /\ pos < Len(text)
    /\ LET st == scanRune([sb |-> sb, parenLevel |-> parenLevel,
                           sentences |-> sentences], text, pos + 1)
           appended == Len(st.sentences) > Len(sentences)
       IN  /\ pos' = pos + 1
           /\ sb' = st.sb
           /\ parenLevel' = st.parenLevel
           /\ sentences' = st.sentences
           /\ spans' = IF appended
                       THEN Append(spans, SpanOf(Append(sb, text[pos + 1]), pos + 1))
                       ELSE spans
           /\ cuts' = IF appended THEN cuts \cup {pos + 1} ELSE cuts
    /\ UNCHANGED <<text, pcS>>
    /\ UNCHANGED OtherThanSplit

SplitFlush ==
    /\ pcS = "scan"
    /\ pos = Len(text)
    /\ LET out == scanFlush([sb |-> sb, parenLevel |-> parenLevel,
                             sentences |-> sentences])
       IN  /\ sentences' = out
           /\ spans' = IF Len(out) > Len(sentences)
                       THEN Append(spans, SpanOf(sb, pos))
                       ELSE spans
    /\ pcS' = "done"
    /\ UNCHANGED <<text, pos, sb, parenLevel, cuts>>
    /\ UNCHANGED OtherThanSplit

(***************************************************************************)
(* verifyAndExtractContext (main.go).                                      *)
(***************************************************************************)
\* strings.Contains
Contains(s, q) ==
    \E k \in 0..(Len(s) - Len(q)) : SubSeq(s, k + 1, k + Len(q)) = q

\* strings.Join(elems, " ")
RECURSIVE Join(_)
Join(elems) ==
    IF elems = <<>> THEN <<>>
    ELSE IF Len(elems) = 1 THEN elems[1]
    ELSE elems[1] \o <<" ">> \o Join(Tail(elems))

\* the Go slice s[lo:hi], lo and hi counted from 0
Slice(s, lo, hi) == SubSeq(s, lo + 1, hi)

\* type Quote
MkQuote(t, a, before, after) ==
    [Text |-> t, Author |-> a, ContextBefore |-> before, ContextAfter |-> after]

\* Quote{}
ZeroQuote == MkQuote(<<>>, <<>>, <<>>, <<>>)

\* the body of the loop on a match at index i (from 0) with one sentence of
\* context after the match instead of two: the mutant of matchAt
matchAtShortAfter(ss, quote, author, i) ==
    LET start == IF i - 2 < 0 THEN 0 ELSE i - 2
        end   == IF i + 2 > Len(ss) THEN Len(ss) ELSE i + 2
    IN  [quote |-> MkQuote(quote, author,
                           Join(Slice(ss, start, i)),
                           Join(Slice(ss, i + 1, end))),
         ok |-> TRUE]

\* the body of the loop on a match at index i (from 0)
matchAt(ss, quote, author, i) ==
    LET start == IF i - 2 < 0 THEN 0 ELSE i - 2
        end   == IF i + 3 > Len(ss) THEN Len(ss) ELSE i + 3
    IN  [quote |-> MkQuote(quote, author,
                           Join(Slice(ss, start, i)),
                           Join(Slice(ss, i + 1, end))),
         ok |-> TRUE]

\* "for i, s := range sentences" from index i (from 0) on
RECURSIVE verifyFrom(_, _, _, _)
verifyFrom(ss, quote, author, i) ==
    IF i >= Len(ss) THEN [quote |-> ZeroQuote, ok |-> FALSE]
    ELSE IF Contains(ss[i + 1], quote) THEN matchAt(ss, quote, author, i)
    ELSE verifyFrom(ss, quote, author, i + 1)

verifyAndExtractContext(ss, quote, author) == verifyFrom(ss, quote, author, 0)

(***************************************************************************)
(* One call of verifyAndExtractContext.                                    *)
(***************************************************************************)
SentencePool == { <<"a", ".">>, <<"b", "a", "!">>, <<"c", "?">> }
QuotePool    == { <<>>, <<"a">>, <<"b", "a">>, <<"z">> }
AuthorPool   == { <<"A">> }

NoResult == [quote |-> ZeroQuote, ok |-> FALSE]

VerifyIdle ==
    /\ vSentences = <<>>
    /\ vQuote = <<>>
    /\ vAuthor = <<>>
    /\ vResult = NoResult
    /\ pcV = "idle"

VerifyInit ==
    /\ vSentences \in UNION {[1..n -> SentencePool] : n \in 0..MaxSents}
    /\ vQuote \in QuotePool
    /\ vAuthor \in AuthorPool
    /\ vResult = NoResult
    /\ pcV = "call"

VerifyCall ==
    /\ pcV = "call"
    /\ vResult' = verifyAndExtractContext(vSentences, vQuote, vAuthor)
    /\ pcV' = "done"
    /\ UNCHANGED <<vSentences, vQuote, vAuthor>>
    /\ UNCHANGED OtherThanVerify

(***************************************************************************)
(* encoding/csv as main.go and random_quote.go configure it: Comma ';',     *)
(* UseCRLF false on the writer; Comma ';', TrimLeadingSpace true,           *)
(* FieldsPerRecord 0, LazyQuotes false, no Comment on the reader.           *)
(***************************************************************************)
\* bytes.IndexByte(s, c) + 1: the first position of c in s, 0 when absent
FirstIndex(s, c) ==
    IF \E k \in 1..Len(s) : s[k] = c
    THEN CHOOSE k \in 1..Len(s) : s[k] = c /\ \A j \in 1..(k-1) : s[j] # c
    ELSE 0

\* the Go slice s[n:]
DropPrefix(s, n) == SubSeq(s, n + 1, Len(s))

\* strings.ReplaceAll(s, old, new) for one-character old and new
ReplaceAll(s, old, new) == [k \in 1..Len(s) |-> IF s[k] = old THEN new ELSE s[k]]

\* csv.Writer.fieldNeedsQuotes
fieldNeedsQuotes(field) ==
    /\ field # <<>>
    /\ \/ field = <<"\\", ".">>
       \/ \E k \in 1..Len(field) : field[k] \in {"\n", "\r", "\"", ";"}
       \/ IsSpace(field[1])

\* the field between quotes, each quote doubled
RECURSIVE quoteEscaped(_)
quoteEscaped(field) ==
    IF field = <<>> THEN <<>>
    ELSE (IF field[1] = "\"" THEN <<"\"", "\"">> ELSE <<field[1]>>)
             \o quoteEscaped(Tail(field))

\* one field as csv.Writer.Write writes it
writeField(field) ==
    IF fieldNeedsQuotes(field)
    THEN <<"\"">> \o quoteEscaped(field) \o <<"\"">>
    ELSE field

\* csv.Writer.Write(record): the fields, ';' between them, and a newline
RECURSIVE writeFields(_)
writeFields(record) ==
    IF Len(record) = 1 THEN writeField(record[1])
    ELSE writeField(record[1]) \o <<";">> \o writeFields(Tail(record))

writeRecord(record) == writeFields(record) \o <<"\n">>

\* lengthNL
lengthNL(b) == IF Len(b) > 0 /\ b[Len(b)] = "\n" THEN 1 ELSE 0

\* csv.Reader.readLine: the next line with its newline, "\r\n" made "\n", a
\* "\r" before the end of the file dropped
readLine(rest) ==
    IF rest = <<>> THEN [line |-> <<>>, rest |-> <<>>, eof |-> TRUE]
    ELSE LET nl  == FirstIndex(rest, "\n")
             raw == IF nl = 0 THEN rest ELSE SubSeq(rest, 1, nl)
             l1  == IF nl = 0 /\ raw[Len(raw)] = "\r"
                    THEN SubSeq(raw, 1, Len(raw) - 1) ELSE raw
             n   == Len(l1)
             l2  == IF n >= 2 /\ l1[n-1] = "\r" /\ l1[n] = "\n"
                    THEN Append(SubSeq(l1, 1, n - 2), "\n") ELSE l1
         IN  [line |-> l2, rest |-> DropPrefix(rest, Len(raw)), eof |-> FALSE]

\* TrimLeadingSpace: the line from its first character that is not a space
trimLeadingSpace(line) ==
    IF \A k \in 1..Len(line) : IsSpace(line[k]) THEN <<>>
    ELSE DropPrefix(line,
             (CHOOSE k \in 1..Len(line) : /\ ~IsSpace(line[k])
                                          /\ \A j \in 1..(k-1) : IsSpace(line[j])) - 1)

RecordErr == [kind |-> "err", fields |-> <<>>, rest |-> <<>>]

\* csv.Reader.readRecord from the label parseField on: line is what is left
\* of the current line, rest what is left of the file, fields the fields so far
RECURSIVE parseField(_, _, _)
RECURSIVE parseQuoted(_, _, _, _)
parseField(line, rest, fields) ==
    LET l == trimLeadingSpace(line)
    IN  IF l = <<>> \/ l[1] # "\""
        THEN \* a field without quotes
             LET i     == FirstIndex(l, ";")
                 field == IF i > 0 THEN SubSeq(l, 1, i - 1)
                          ELSE SubSeq(l, 1, Len(l) - lengthNL(l))
             IN  IF FirstIndex(field, "\"") > 0 THEN RecordErr   \* ErrBareQuote
                 ELSE IF i > 0
                      THEN parseField(DropPrefix(l, i), rest, Append(fields, field))
                      ELSE [kind |-> "rec", fields |-> Append(fields, field),
                            rest |-> rest]
        ELSE parseQuoted(DropPrefix(l, 1), rest, <<>>, fields)

\* the loop of a quoted field: buf is the field so far
parseQuoted(line, rest, buf, fields) ==
    LET i == FirstIndex(line, "\"")
    IN  IF i > 0
        THEN LET buf1 == buf \o SubSeq(line, 1, i - 1)
                 l1   == DropPrefix(line, i)
             IN  IF l1 # <<>> /\ l1[1] = "\""
                 THEN parseQuoted(DropPrefix(l1, 1), rest, Append(buf1, "\""), fields)
                 ELSE IF l1 # <<>> /\ l1[1] = ";"
                 THEN parseField(DropPrefix(l1, 1), rest, Append(fields, buf1))
                 ELSE IF lengthNL(l1) = Len(l1)
                 THEN [kind |-> "rec", fields |-> Append(fields, buf1), rest |-> rest]
                 ELSE RecordErr                                  \* ErrQuote
        ELSE IF Len(line) > 0
        THEN \* the field goes on in the next line
             LET nx == readLine(rest)
             IN  parseQuoted(nx.line, nx.rest, buf \o line, fields)
        ELSE RecordErr                                           \* ErrQuote

\* csv.Reader.readRecord: empty lines are skipped
RECURSIVE readRecord(_)
readRecord(rest) ==
    LET ln == readLine(rest)
    IN  IF ln.eof THEN [kind |-> "eof", fields |-> <<>>, rest |-> <<>>]
        ELSE IF Len(ln.line) = lengthNL(ln.line) THEN readRecord(ln.rest)
        ELSE parseField(ln.line, ln.rest, <<>>)

\* csv.Reader.ReadAll with FieldsPerRecord as it stands: 0 before the first
\* record, the first record's number of fields after it
RECURSIVE readAllFrom(_, _, _)
readAllFrom(rest, records, fieldsPerRecord) ==
    LET r == readRecord(rest)
    IN  IF r.kind = "eof" THEN [err |-> FALSE, records |-> records]
        ELSE IF r.kind = "err" THEN [err |-> TRUE, records |-> <<>>]
        ELSE IF fieldsPerRecord > 0 /\ Len(r.fields) # fieldsPerRecord
        THEN [err |-> TRUE, records |-> <<>>]                    \* ErrFieldCount
        ELSE readAllFrom(r.rest, Append(records, r.fields),
                         IF fieldsPerRecord = 0 THEN Len(r.fields)
                         ELSE fieldsPerRecord)

ReadAll(content) == readAllFrom(content, <<>>, 0)

(***************************************************************************)
(* initCSV and appendToCSV (main.go), readQuotesFromCSV (random_quote.go). *)
(***************************************************************************)
\* the three bytes of the UTF-8 byte order mark
BOM == <<"xEF", "xBB", "xBF">>

\* the header row (the Cyrillic column names, transliterated)
Header ==
    << <<"C", "i", "t", "a", "t", "a">>,
       <<"A", "v", "t", "o", "r">>,
       <<"K", "o", "n", "t", "e", "k", "s", "t", " ", "(", "D", "o", ")">>,
       <<"K", "o", "n", "t", "e", "k", "s", "t", " ", "(", "P", "o", "s", "l", "e", ")">> >>

\* initCSV: the file as created
initCSV == BOM \o writeRecord(Header)

\* the sanitization of a field without the newline replacement: the mutant
\* of sanitizeField
sanitizeFieldSemicolonOnly(f) == ReplaceAll(f, ";", ",")

\* the two ReplaceAll calls appendToCSV makes on each field
sanitizeField(f) == ReplaceAll(ReplaceAll(f, ";", ","), "\n", " ")

\* appendToCSV: the file after the quotes are appended to it
RECURSIVE appendToCSV(_, _)
appendToCSV(file, quotes) ==
    IF quotes = <<>> THEN file
    ELSE LET q == quotes[1]
         IN  appendToCSV(file \o writeRecord(<< sanitizeField(q.Text),
                                                sanitizeField(q.Author),
                                                sanitizeField(q.ContextBefore),
                                                sanitizeField(q.ContextAfter) >>),
                         Tail(quotes))

\* the loop of readQuotesFromCSV over records[1:]
RECURSIVE quotesOfRecords(_)
quotesOfRecords(records) ==
    IF records = <<>> THEN <<>>
    ELSE IF Len(records[1]) < 4 THEN quotesOfRecords(Tail(records))
    ELSE << MkQuote(records[1][1], records[1][2], records[1][3], records[1][4]) >>
             \o quotesOfRecords(Tail(records))

\* readQuotesFromCSV on a file: file.readable is whether os.Open succeeds,
\* file.content what the file holds.  kind "panic" is the run-time panic of
\* records[1:] on an empty records.
readQuotesFromCSV(file) ==
    IF ~file.readable THEN [kind |-> "err", quotes |-> <<>>]
    ELSE LET all == ReadAll(file.content)
         IN  IF all.err THEN [kind |-> "err", quotes |-> <<>>]
             ELSE IF Len(all.records) < 1 THEN [kind |-> "panic", quotes |-> <<>>]
             ELSE [kind |-> "ok", quotes |-> quotesOfRecords(Tail(all.records))]

(***************************************************************************)
(* A quote written to a new file and read back.                            *)
(***************************************************************************)
FieldAlphabet == {"a", ";", ",", "\n", " ", "\"", "\r"}
RichFields    == UNION {[1..n -> FieldAlphabet] : n \in 0..MaxField}
PlainFields   == { <<>>, <<"b">> }

\* the quotes of which field p is any string and the other three are plain
QuoteInputs ==
    { MkQuote(f[1], f[2], f[3], f[4]) :
        f \in UNION { { [k \in 1..4 |-> IF k = p THEN r ELSE g[k]] :
                           r \in RichFields, g \in [1..4 -> PlainFields] } :
                       p \in 1..4 } }

PlainQuote == MkQuote(<<"b">>, <<"A">>, <<"a", ".">>, <<"c", "?">>)

NoRead == [kind |-> "none", quotes |-> <<>>]

CsvIdle ==
    /\ cQuote = ZeroQuote
    /\ csvFile = <<>>
    /\ cWritten = <<>>
    /\ cRead = NoRead
    /\ pcC = "idle"

CsvInit ==
    /\ cQuote \in QuoteInputs
    /\ csvFile = <<>>
    /\ cWritten = <<>>
    /\ cRead = NoRead
    /\ pcC = "create"

\* processFile's call of initCSV
CsvCreate ==
    /\ pcC = "create"
    /\ csvFile' = initCSV
    /\ pcC' = "append"
    /\ UNCHANGED <<cQuote, cWritten, cRead>>
    /\ UNCHANGED OtherThanCsv

\* processBlock's call of appendToCSV with one or two quotes
CsvAppend ==
    /\ pcC = "append"
    /\ \E batch \in { <<cQuote>>, <<cQuote, PlainQuote>>, <<PlainQuote, cQuote>> } :
          /\ csvFile' = appendToCSV(csvFile, batch)
          /\ cWritten' = cWritten \o batch
    /\ pcC' = "read"
    /\ UNCHANGED <<cQuote, cRead>>
    /\ UNCHANGED OtherThanCsv

\* the sampler's call of readQuotesFromCSV on the file
CsvRead ==
    /\ pcC \in {"append", "read"}
    /\ cRead' = readQuotesFromCSV([readable |-> TRUE, content |-> csvFile])
    /\ pcC' = "done"
    /\ UNCHANGED <<cQuote, csvFile, cWritten>>
    /\ UNCHANGED OtherThanCsv

(***************************************************************************)
(* getRandomQuote (random_quote.go).                                       *)
(***************************************************************************)
\* the data rows a file of the model is made of
RowKinds == {"rowA", "rowB", "short"}

RowFields(kind) ==
    IF kind = "rowA" THEN << <<"a">>, <<"A">>, <<"b">>, <<"c">> >>
    ELSE IF kind = "rowB" THEN << <<"d">>, <<"A">>, <<>>, <<"e">> >>
    ELSE << <<"x">>, <<"y">> >>

RECURSIVE RowsText(_)
RowsText(rows) ==
    IF rows = <<>> THEN <<>>
    ELSE writeRecord(RowFields(rows[1])) \o RowsText(Tail(rows))

\* the files of the model: unreadable, empty, or the header row of initCSV
\* and up to MaxRows data rows
FilePool ==
    { [readable |-> FALSE, header |-> FALSE, rows |-> <<>>],
      [readable |-> TRUE,  header |-> FALSE, rows |-> <<>>] }
    \cup
    { [readable |-> TRUE, header |-> TRUE, rows |-> rows] :
        rows \in UNION {[1..n -> RowKinds] : n \in 0..MaxRows} }

\* what os.Open and the reader find for a file of the model
FileOnDisk(f) ==
    [readable |-> f.readable,
     content  |-> IF f.header THEN initCSV \o RowsText(f.rows) ELSE <<>>]

SamplerIdle ==
    /\ sWalkErr = FALSE
    /\ sFiles = <<>>
    /\ sNext = 0
    /\ sAllQuotes = <<>>
    /\ sLog = <<>>
    /\ sPerFile = <<>>
    /\ sQuote = ZeroQuote
    /\ pcR = "idle"

SamplerInit ==
    /\ sWalkErr \in BOOLEAN
    /\ sFiles \in UNION {[1..n -> FilePool] : n \in 0..MaxFiles}
    /\ sNext = 0
    /\ sAllQuotes = <<>>
    /\ sLog = <<>>
    /\ sPerFile = <<>>
    /\ sQuote = ZeroQuote
    /\ pcR = "find"

\* findCSVFiles and the two tests after it
FindCSVFiles ==
    /\ pcR = "find"
    /\ pcR' = IF sWalkErr \/ Len(sFiles) = 0 THEN "error" ELSE "read"
    /\ UNCHANGED <<sWalkErr, sFiles, sNext, sAllQuotes, sLog, sPerFile, sQuote>>
    /\ UNCHANGED OtherThanSampler

\* one iteration of "for _, filePath := range csvFiles"
ReadFile ==
    /\ pcR = "read"
    /\ sNext < Len(sFiles)
    /\ sPerFile' = Append(sPerFile, readQuotesFromCSV(FileOnDisk(sFiles[sNext + 1])))
    /\ LET r == sPerFile'[Len(sPerFile')]
       IN  /\ sNext' = sNext + 1
           /\ pcR' = IF r.kind = "panic" THEN "panic" ELSE "read"
           /\ sLog' = IF r.kind = "err" THEN Append(sLog, sNext + 1) ELSE sLog
           /\ sAllQuotes' = IF r.kind = "ok" THEN sAllQuotes \o r.quotes
                            ELSE sAllQuotes
    /\ UNCHANGED <<sWalkErr, sFiles, sQuote>>
    /\ UNCHANGED OtherThanSampler

\* the code after the loop: no quotes is an error, else rand.Intn picks one
PickQuote ==
    /\ pcR = "read"
    /\ sNext = Len(sFiles)
    /\ IF Len(sAllQuotes) = 0
       THEN pcR' = "error" /\ sQuote' = sQuote
       ELSE /\ pcR' = "done"
            /\ \E randomIndex \in 0..(Len(sAllQuotes) - 1) :
                  sQuote' = sAllQuotes[randomIndex + 1]
    /\ UNCHANGED <<sWalkErr, sFiles, sNext, sAllQuotes, sLog, sPerFile>>
    /\ UNCHANGED OtherThanSampler

(***************************************************************************)
(* processFile and processBlock (main.go).                                 *)
(***************************************************************************)
maxBlockSize == 3000

\* s followed by spaces up to length n
PadTo(s, n) == s \o [k \in 1..(n - Len(s)) |-> " "]

\* the lines the input file of the model is made of: two short ones, one
\* that fills the block to maxBlockSize exactly with its newline, one that
\* alone exceeds it
LineText ==
    [ short |-> <<"a", ".", " ", "b", "a", "!">>,
      empty |-> <<>>,
      full  |-> PadTo(<<"c", "?">>, maxBlockSize - 1),
      over  |-> PadTo(<<"(", "d", ".", ")", " ", "e">>, maxBlockSize) ]

LineKeys == DOMAIN LineText

\* splitSentences(line) for each line of the model, computed once
lineSentences == [k \in LineKeys |-> splitSentences(LineText[k])]

\* block.Len() after line+"\n" was written for each line of blk
RECURSIVE blockLen(_)
blockLen(blk) ==
    IF blk = <<>> THEN 0
    ELSE Len(LineText[blk[1]]) + 1 + blockLen(Tail(blk))

\* the test "block.Len() > maxBlockSize" as ">=": the mutant of blockIsFull
blockIsFullAtLimit(blk) == blockLen(blk) >= maxBlockSize

\* the test "block.Len() > maxBlockSize"
blockIsFull(blk) == blockLen(blk) > maxBlockSize

\* what extractQuotesFromAI can return: an error ("fail"), nil and no error
\* after the response failed to parse ("nonjson", logged there), or the
\* parsed array
CandidatePool == { <<"a">>, <<"z">> }
AIResponses ==
    { [kind |-> "fail", quotes |-> <<>>], [kind |-> "nonjson", quotes |-> <<>>] }
    \cup
    { [kind |-> "ok", quotes |-> q] : q \in UNION {[1..n -> CandidatePool] : n \in 0..2} }

TheAuthor == <<"A">>

\* the loop of processBlock over aiQuotes
RECURSIVE validQuotesOf(_, _, _)
validQuotesOf(aiQuotes, ss, author) ==
    IF aiQuotes = <<>> THEN <<>>
    ELSE LET r == verifyAndExtractContext(ss, aiQuotes[1], author)
         IN  (IF r.ok THEN <<r.quote>> ELSE <<>>)
                 \o validQuotesOf(Tail(aiQuotes), ss, author)

\* processBlock on the response resp of the AI call: the error returned, the
\* output file and allQuotes after it, the lines it logged and whether it
\* slept
processBlock(ss, author, resp, csv, quotes) ==
    IF resp.kind = "fail"
    THEN [err |-> TRUE, csv |-> csv, quotes |-> quotes,
          log |-> <<"block">>, slept |-> FALSE]
    ELSE IF Len(resp.quotes) = 0
    THEN [err |-> FALSE, csv |-> csv, quotes |-> quotes,
          log |-> IF resp.kind = "nonjson" THEN <<"block", "nonjson">>
                  ELSE <<"block">>,
          slept |-> FALSE]
    ELSE LET validQuotes == validQuotesOf(resp.quotes, ss, author)
         IN  IF Len(validQuotes) > 0
             THEN [err |-> FALSE, csv |-> appendToCSV(csv, validQuotes),
                   quotes |-> quotes \o validQuotes,
                   log |-> <<"block", "saved">>, slept |-> TRUE]
             ELSE [err |-> FALSE, csv |-> csv, quotes |-> quotes,
                   log |-> <<"block">>, slept |-> TRUE]

\* the record of a call of processBlock kept in pCalls
CallRecord(resp, out, blk, ss, linesRead, errLogged, final, blkAfter) ==
    [ kind      |-> resp.kind,
      slept     |-> out.slept,
      err       |-> out.err,
      errLogged |-> errLogged,
      final     |-> final,
      blockLen  |-> blockLen(blk),
      sentences |-> ss,
      linesRead |-> linesRead,
      persisted |-> Len(out.quotes) - Len(allQuotes),
      csvGrew   |-> out.csv # pCsv,
      blockLenAfter |-> blockLen(blkAfter) ]

ProcessIdle ==
    /\ pInput = <<>>
    /\ pRead = 0
    /\ block = <<>>
    /\ allSentences = <<>>
    /\ allQuotes = <<>>
    /\ pCsv = <<>>
    /\ pLog = <<>>
    /\ pCalls = <<>>
    /\ pcP = "idle"

ProcessInit ==
    /\ pInput \in UNION {[1..n -> LineKeys] : n \in 0..MaxLines}
    /\ pRead = 0
    /\ block = <<>>
    /\ allSentences = <<>>
    /\ allQuotes = <<>>
    /\ pCsv = <<>>
    /\ pLog = <<>>
    /\ pCalls = <<>>
    /\ pcP = "start"

\* os.Open and initCSV: either fails and processFile returns the error
OpenFiles ==
    /\ pcP = "start"
    /\ \E ok \in BOOLEAN :
          /\ pcP' = IF ok THEN "scan" ELSE "failed"
          /\ pCsv' = IF ok THEN initCSV ELSE pCsv
    /\ UNCHANGED <<pInput, pRead, block, allSentences, allQuotes, pLog, pCalls>>
    /\ UNCHANGED OtherThanProcess

\* an iteration of the scanner loop that leaves the line in the block
ScanLineKeep ==
    /\ pcP = "scan"
    /\ pRead < Len(pInput)
    /\ LET line == pInput[pRead + 1]
       IN  /\ ~blockIsFull(Append(block, line))
           /\ allSentences' = allSentences \o lineSentences[line]
           /\ block' = Append(block, line)
    /\ pRead' = pRead + 1
    /\ UNCHANGED <<pInput, allQuotes, pCsv, pLog, pCalls, pcP>>
    /\ UNCHANGED OtherThanProcess

\* an iteration of the scanner loop that fills the block: processBlock is
\* called, its error logged and the block reset
ScanLineDispatch ==
    /\ pcP = "scan"
    /\ pRead < Len(pInput)
    /\ LET line == pInput[pRead + 1]
           ss   == allSentences \o lineSentences[line]
           blk  == Append(block, line)
       IN  /\ blockIsFull(blk)
           /\ \E resp \in AIResponses :
                 LET out == processBlock(ss, TheAuthor, resp, pCsv, allQuotes)
                 IN  /\ allSentences' = ss
                     /\ allQuotes' = out.quotes
                     /\ pCsv' = out.csv
                     /\ pLog' = pLog \o out.log
                                     \o (IF out.err THEN <<"error">> ELSE <<>>)
                     /\ pCalls' = Append(pCalls,
                                         CallRecord(resp, out, blk, ss, pRead + 1,
                                                    out.err, FALSE, <<>>))
           /\ block' = <<>>
    /\ pRead' = pRead + 1
    /\ UNCHANGED <<pInput, pcP>>
    /\ UNCHANGED OtherThanProcess

\* the end of the input with lines left in the block: processBlock is
\* called and what it returns is dropped
FinishWithBlock ==
    /\ pcP = "scan"
    /\ pRead = Len(pInput)
    /\ blockLen(block) > 0
    /\ \E resp \in AIResponses :
          LET out == processBlock(allSentences, TheAuthor, resp, pCsv, allQuotes)
          IN  /\ allQuotes' = out.quotes
              /\ pCsv' = out.csv
              /\ pLog' = pLog \o out.log \o <<"total">>
              /\ pCalls' = Append(pCalls,
                                  CallRecord(resp, out, block, allSentences, pRead,
                                             FALSE, TRUE, block))
    /\ pcP' = "done"
    /\ UNCHANGED <<pInput, pRead, block, allSentences>>
    /\ UNCHANGED OtherThanProcess

\* the end of the input with an empty block
FinishEmpty ==
    /\ pcP = "scan"
    /\ pRead = Len(pInput)
    /\ blockLen(block) = 0
    /\ pLog' = Append(pLog, "total")
    /\ pcP' = "done"
    /\ UNCHANGED <<pInput, pRead, block, allSentences, allQuotes, pCsv, pCalls>>
    /\ UNCHANGED OtherThanProcess

(***************************************************************************)
(* Specifications: one per component, the others idle.                     *)
(***************************************************************************)
SplitNext == SplitStep \/ SplitFlush

InitSplit == SplitInit /\ VerifyIdle /\ CsvIdle /\ SamplerIdle /\ ProcessIdle

SpecSplit == InitSplit /\ [][SplitNext]_vars

VerifyNext == VerifyCall

InitVerify == VerifyInit /\ SplitIdle /\ CsvIdle /\ SamplerIdle /\ ProcessIdle

SpecVerify == InitVerify /\ [][VerifyNext]_vars

CsvNext == CsvCreate \/ CsvAppend \/ CsvRead

InitCsv == CsvInit /\ SplitIdle /\ VerifyIdle /\ SamplerIdle /\ ProcessIdle

SpecCsv == InitCsv /\ [][CsvNext]_vars

SamplerNext == FindCSVFiles \/ ReadFile \/ PickQuote

InitSampler == SamplerInit /\ SplitIdle /\ VerifyIdle /\ CsvIdle /\ ProcessIdle

SpecSampler == InitSampler /\ [][SamplerNext]_vars

ProcessNext ==
    \/ OpenFiles
    \/ ScanLineKeep
    \/ ScanLineDispatch
    \/ FinishWithBlock
    \/ FinishEmpty

InitProcess == ProcessInit /\ SplitIdle /\ VerifyIdle /\ CsvIdle /\ SamplerIdle

SpecProcess == InitProcess /\ [][ProcessNext]_vars

(***************************************************************************)
(* Claims about splitSentences, checked under SpecSplit.                   *)
(***************************************************************************)
\* opened minus closed brackets among the first p characters of t
LevelAfter(t, p) ==
    Cardinality({k \in 1..p : t[k] \in Openers})
        - Cardinality({k \in 1..p : t[k] \in Closers})

\* the period at p is directly followed by a character that is neither a
\* space nor a newline
AbbrevPeriod(t, p) ==
    /\ t[p] = "."
    /\ p + 1 <= Len(t)
    /\ t[p+1] # " "
    /\ t[p+1] # "\n"

\* the step model and the operator agree on the result
SplitAgrees == pcS = "done" => sentences = splitSentences(text)

\* C1: the sentences are substrings of the text in document order (each
\* starts after the one before it ends), none is empty and none starts or
\* ends with whitespace.
C1_DocumentOrderTrimmed ==
    /\ SplitAgrees
    /\ Len(spans) = Len(sentences)
    /\ \A k \in 1..Len(sentences) :
          /\ 1 <= spans[k][1]
          /\ spans[k][1] <= spans[k][2]
          /\ spans[k][2] <= Len(text)
          /\ sentences[k] = SubSeq(text, spans[k][1], spans[k][2])
          /\ sentences[k] # <<>>
          /\ ~IsSpace(sentences[k][1])
          /\ ~IsSpace(sentences[k][Len(sentences[k])])
    /\ \A k \in 1..(Len(sentences) - 1) : spans[k][2] < spans[k+1][1]

\* C1 witness: a text split into two sentences, whitespace between them
C1_Witness ==
    /\ pcS = "done"
    /\ text = <<"a", "!", " ", "a">>
    /\ sentences = << <<"a", "!">>, <<"a">> >>

\* C2 as stated: a period directly followed by a character that is neither a
\* space nor a newline never ends a sentence: the period and the character
\* after it lie in the same returned sentence.
C2_PeriodAndNextStayTogether ==
    pcS = "done" =>
        \A p \in 1..Len(text) :
            AbbrevPeriod(text, p) =>
                \E k \in 1..Len(spans) : spans[k][1] <= p /\ p + 1 <= spans[k][2]

\* C2 as amended: no sentence is cut at such a period; it lies in a returned
\* sentence, and that sentence ends at the period only when nothing but
\* whitespace follows the period up to the end of the text.
C2_NoCutAtAbbrevPeriod ==
    /\ SplitAgrees
    /\ \A p \in cuts : ~AbbrevPeriod(text, p)
    /\ pcS = "done" =>
          \A p \in 1..Len(text) :
              AbbrevPeriod(text, p) =>
                  \E k \in 1..Len(spans) :
                      /\ spans[k][1] <= p
                      /\ p <= spans[k][2]
                      /\ spans[k][2] = p =>
                            \A j \in (p+1)..Len(text) : IsSpace(text[j])

\* C2 witness: the first period is followed by a letter and no bracket is
\* open, and the text stays one sentence
C2_Witness ==
    /\ pcS = "done"
    /\ text = <<"a", ".", "a", "!">>
    /\ sentences = <<text>>

\* the terminal at p is the first terminal after a closing bracket that
\* brought the counter back to zero
FirstTerminalAfterClose(t, p) ==
    \E j \in 1..(p-1) :
        /\ t[j] \in Closers
        /\ LevelAfter(t, j) = 0
        /\ \A m \in (j+1)..(p-1) : t[m] \notin Terminals

\* C3 as stated: no sentence ends at a terminal scanned while the counter is
\* not zero, and the first terminal after a closing bracket that brings the
\* counter back to zero ends a sentence.
C3_NextTerminalAfterCloseCuts ==
    /\ \A p \in cuts : text[p] \in Terminals /\ LevelAfter(text, p) = 0
    /\ \A p \in 1..pos :
          (text[p] \in Terminals /\ FirstTerminalAfterClose(text, p)) => p \in cuts

\* C3 as amended: the loop ends a sentence exactly at the terminals scanned
\* at counter zero that are not periods directly followed by a character
\* other than space and newline.
C3_CutsExactlyAtLevelZero ==
    /\ SplitAgrees
    /\ \A p \in cuts : text[p] \in Terminals /\ LevelAfter(text, p) = 0
    /\ \A p \in 1..pos :
          (/\ text[p] \in Terminals
           /\ LevelAfter(text, p) = 0
           /\ ~AbbrevPeriod(text, p)) => p \in cuts
    /\ ExampleSentences = <<ExampleText>>

\* C3 witness: a terminal inside brackets did not end a sentence, the one
\* after the closing bracket did
C3_Witness ==
    /\ pcS = "done"
    /\ text = <<"(", "!", ")", "!">>
    /\ sentences = <<text>>
    /\ cuts = {4}

(***************************************************************************)
(* Claims about verifyAndExtractContext, checked under SpecVerify.         *)
(***************************************************************************)
\* the indexes (from 1) of the sentences of ss that contain q
Matches(ss, q) == {i \in 1..Len(ss) : Contains(ss[i], q)}

\* the sentences ss[lo..hi] with single spaces between them
RECURSIVE SpaceJoined(_, _, _)
SpaceJoined(ss, lo, hi) ==
    IF lo > hi THEN <<>>
    ELSE IF lo = hi THEN ss[lo]
    ELSE SpaceJoined(ss, lo, hi - 1) \o <<" ">> \o ss[hi]

\* C4: "not found" when no sentence contains the quote; otherwise, with i the
\* first sentence that contains it, the quote and author as given, up to two
\* sentences before i and up to two after i joined by single spaces, clamped
\* at the ends of the sequence.
C4_FirstMatchWindow ==
    pcV = "done" =>
        LET M == Matches(vSentences, vQuote)
            n == Len(vSentences)
        IN  IF M = {}
            THEN ~vResult.ok
            ELSE LET i  == CHOOSE m \in M : \A k \in M : m <= k
                     lo == IF i - 2 < 1 THEN 1 ELSE i - 2
                     hi == IF i + 2 > n THEN n ELSE i + 2
                 IN  /\ vResult.ok
                     /\ vResult.quote.Text = vQuote
                     /\ vResult.quote.Author = vAuthor
                     /\ vResult.quote.ContextBefore = SpaceJoined(vSentences, lo, i - 1)
                     /\ vResult.quote.ContextAfter = SpaceJoined(vSentences, i + 1, hi)
                     /\ i = 1 => vResult.quote.ContextBefore = <<>>
                     /\ i = n => vResult.quote.ContextAfter = <<>>

\* C4 witness: five sentences, the quote in the third and in a later one: the
\* context is the two sentences before and the two after the third
C4_Witness ==
    /\ pcV = "done"
    /\ vSentences = << <<"a", ".">>, <<"c", "?">>, <<"b", "a", "!">>,
                       <<"c", "?">>, <<"b", "a", "!">> >>
    /\ vQuote = <<"b", "a">>
    /\ vResult.ok
    /\ vResult.quote.ContextBefore = <<"a", ".", " ", "c", "?">>
    /\ vResult.quote.ContextAfter = <<"c", "?", " ", "b", "a", "!">>

(***************************************************************************)
(* Claims about the delimited file, checked under SpecCsv and SpecSampler. *)
(***************************************************************************)
\* a field with each ';' replaced by ',' and each newline by a space
Sanitized(f) ==
    [k \in 1..Len(f) |-> IF f[k] = ";" THEN "," ELSE IF f[k] = "\n" THEN " " ELSE f[k]]

SanitizedQuote(q) ==
    MkQuote(Sanitized(q.Text), Sanitized(q.Author),
            Sanitized(q.ContextBefore), Sanitized(q.ContextAfter))

\* C7: the quotes read back from the file are the quotes written to it, in
\* order, each field changed by the sanitization (';' to ',', newline to
\* space) and by nothing else.
C7_RoundTrip ==
    pcC = "done" =>
        /\ cRead.kind = "ok"
        /\ cRead.quotes = [k \in 1..Len(cWritten) |-> SanitizedQuote(cWritten[k])]

\* C7 witness: a field that starts with a space and holds a quote, a
\* semicolon and a newline was written and read back sanitized
C7_Witness ==
    /\ pcC = "done"
    /\ cWritten = <<cQuote>>
    /\ cQuote.Text = <<";", "\n">>
    /\ cQuote.ContextAfter = <<"b">>
    /\ cRead.quotes = << MkQuote(<<",", " ">>, cQuote.Author,
                                 cQuote.ContextBefore, <<"b">>) >>

\* the quotes of the rows of a file that have four fields, in order
RECURSIVE WellFormedQuotes(_)
WellFormedQuotes(rows) ==
    IF rows = <<>> THEN <<>>
    ELSE (IF Len(RowFields(rows[1])) < 4 THEN <<>>
          ELSE << MkQuote(RowFields(rows[1])[1], RowFields(rows[1])[2],
                          RowFields(rows[1])[3], RowFields(rows[1])[4]) >>)
             \o WellFormedQuotes(Tail(rows))

\* C5: of a file with a data row of fewer than four fields, that row alone
\* is skipped: the read succeeds and returns the quote of every row of four
\* fields before and after it.
C5_ShortRowAloneSkipped ==
    \A k \in 1..Len(sPerFile) :
        (/\ sFiles[k].header
         /\ \E j \in 1..Len(sFiles[k].rows) : sFiles[k].rows[j] = "short")
        => /\ sPerFile[k].kind = "ok"
           /\ sPerFile[k].quotes = WellFormedQuotes(sFiles[k].rows)

\* the quotes of the files that were read and returned quotes, in order
RECURSIVE PooledQuotes(_)
PooledQuotes(results) ==
    IF results = <<>> THEN <<>>
    ELSE (IF results[1].kind = "ok" THEN results[1].quotes ELSE <<>>)
             \o PooledQuotes(Tail(results))

\* C6: no file ends the run: a file that cannot be read or holds no quote
\* (a file of no rows too) is skipped and the quotes of the other files are
\* pooled; the run fails only when the pool is empty, and otherwise returns
\* a quote of the pool.
C6_BadFilesSkipped ==
    /\ pcR # "panic"
    /\ sAllQuotes = PooledQuotes(sPerFile)
    /\ (pcR = "error" /\ sNext > 0) => (sNext = Len(sFiles) /\ Len(sAllQuotes) = 0)
    /\ pcR = "done" =>
          /\ sNext = Len(sFiles)
          /\ \E k \in 1..Len(sAllQuotes) : sQuote = sAllQuotes[k]

(***************************************************************************)
(* Claims about processFile and processBlock, checked under SpecProcess.   *)
(***************************************************************************)
\* C8: when the AI call of a dispatched block fails, the final block after
\* the last line included, the failure is logged, no quote of the block is
\* persisted, and the run goes on to its end without returning an error.
\* The call after the loop drops the error it gets, so its failure is not
\* logged.
C8_FailureLoggedNothingPersisted ==
    /\ \A k \in 1..Len(pCalls) :
          pCalls[k].kind = "fail" =>
              /\ pCalls[k].err
              /\ pCalls[k].errLogged
              /\ pCalls[k].persisted = 0
              /\ ~pCalls[k].csvGrew
    /\ (pCalls # <<>> => pcP \in {"scan", "done"})
    /\ (pcP = "done" => pRead = Len(pInput))

\* C9: every AI call that is followed by another AI call took the 1-second
\* delay, whatever its outcome.  A call that fails or yields no quotes
\* returns before the sleep.
C9_DelayBeforeNextCall ==
    \A k \in 1..(Len(pCalls) - 1) : pCalls[k].slept

\* the sentences of the first n lines of the input
RECURSIVE sentencesOfLines(_, _)
sentencesOfLines(input, n) ==
    IF n = 0 THEN <<>>
    ELSE sentencesOfLines(input, n - 1) \o lineSentences[input[n]]

\* the number of lines read when call k was made, 0 before the first call
ReadAtCall(k) == IF k = 0 THEN 0 ELSE pCalls[k].linesRead

\* allSentences is the sentences of all lines read, in order; the block is
\* the lines read since the last dispatch; a dispatch in the loop happens
\* with the line that first takes the block over maxBlockSize, the one after
\* the loop with a non-empty block; every dispatch gets the sentences of all
\* lines read so far
DispatchDiscipline ==
    /\ allSentences = sentencesOfLines(pInput, pRead)
    /\ \A k \in 1..Len(pCalls) :
          LET c    == pCalls[k]
              from == ReadAtCall(k - 1)
          IN  /\ c.linesRead > from \/ (c.final /\ c.linesRead >= from)
              /\ c.blockLen = blockLen(SubSeq(pInput, from + 1, c.linesRead))
              /\ c.sentences = sentencesOfLines(pInput, c.linesRead)
              /\ IF c.final
                 THEN /\ k = Len(pCalls)
                      /\ c.linesRead = Len(pInput)
                      /\ c.blockLen > 0
                      /\ c.blockLen <= maxBlockSize
                 ELSE /\ c.blockLen > maxBlockSize
                      /\ blockLen(SubSeq(pInput, from + 1, c.linesRead - 1))
                             <= maxBlockSize
    /\ (pcP = "scan" =>
           /\ block = SubSeq(pInput, ReadAtCall(Len(pCalls)) + 1, pRead)
           /\ blockLen(block) <= maxBlockSize)
    /\ (pcP = "done" /\ (pCalls = <<>> \/ ~pCalls[Len(pCalls)].final) =>
           blockLen(block) = 0)

\* C10 as stated: the sentence sequence is append-only, a block is
\* dispatched exactly when the buffer first exceeds 3000 after a line (and
\* once at the end if non-empty), every dispatch gets the sentences of all
\* lines read so far, and the buffer is empty after each dispatch.
C10_BufferEmptyAfterEachDispatch ==
    /\ DispatchDiscipline
    /\ \A k \in 1..Len(pCalls) : pCalls[k].blockLenAfter = 0

\* C10 amended: as above, with the buffer empty after each dispatch made in
\* the loop; the dispatch at the end of the input leaves the buffer as it is.
C10_BufferEmptyAfterLoopDispatch ==
    /\ DispatchDiscipline
    /\ \A k \in 1..Len(pCalls) :
          IF pCalls[k].final
          THEN pCalls[k].blockLenAfter = pCalls[k].blockLen
          ELSE pCalls[k].blockLenAfter = 0

\* C10 witness: a run with a dispatch in the loop and one at the end of the
\* input, the second with the sentences of the first and more
C10_Witness ==
    /\ pcP = "done"
    /\ Len(pCalls) = 2
    /\ ~pCalls[1].final
    /\ pCalls[2].final
    /\ pCalls[1].blockLen > maxBlockSize
    /\ Len(pCalls[2].sentences) > Len(pCalls[1].sentences)
    /\ SubSeq(pCalls[2].sentences, 1, Len(pCalls[1].sentences))
           = pCalls[1].sentences
    /\ pCalls[1].blockLenAfter = 0

=============================================================================
